---- MODULE Spec2Model ----
(***************************************************************************)
(* Model of the context generator (src/.context/generate.py): the pattern  *)
(* filter (SmartFilter), the tree walk (FileCollector), the per-file       *)
(* processor (FileProcessor) and the temp-file + rename writer             *)
(* (StreamingWriter), driven as Generator.run drives them (Spec); the      *)
(* preset table, project detection and the configuration merge             *)
(* (SpecConfig); the minifier on the text of one file (SpecMinify).        *)
(*                                                                         *)
(* Text is modelled as sequences of one-character strings so that glob     *)
(* matching, suffix extraction and prefix tests are computed, not assumed. *)
(* A path is the sequence of its components below "/".                     *)
(***************************************************************************)
EXTENDS Integers, Sequences, FiniteSets, TLC

VARIABLES
    config,          \* the resolved Config record (never mutated in a run)
    listing_asc,     \* whether the file system lists a directory ascending
    pc,              \* position of Generator.run / StreamingWriter.write
    rootIdx,         \* index of the configured root collect() is at
    walkStack,       \* directories os.walk still has to visit (top first)
    cache,           \* SmartFilter._cache : resolved path -> decision
    seen_paths,      \* FileCollector.collect's seen_paths
    files,           \* the paths collect() has yielded, in yield order
    file_paths,      \* write(): sorted candidates without the output path
    idx,             \* write(): position of the per-file loop
    is_first_file,   \* JsonFormatter._is_first_file
    skipped,         \* paths counted by skipped_count
    tmp,             \* content of the temporary file, or Absent
    tmp_bound,       \* whether the local tmp_path is bound
    unlink_failed,   \* whether tmp_path.unlink() raised the swallowed OSError
    unreadable,      \* files of the tree whose open() raises an OSError
    dest,            \* content of the file at config.output, or Absent
    destBefore,      \* dest as it was when the current run started
    generated_dir,   \* whether .context/generated exists
    opened,          \* paths FileProcessor has opened for reading
    clock,           \* wall clock read by time.strftime (seconds)
    run,             \* number of the current run of the tool
    firstDoc,        \* the document the first run published
    PRESETS,         \* ProjectDetector.PRESETS, the class-level table
    root_entries,    \* names of the entries of the project root
    cli_config,      \* the Config handed to the latest Generator(...)
    file_conf,       \* what _load_config_from_file returned for it
    final_config,    \* what _resolve_config returned for it
    detected,        \* what ProjectDetector.detect returned for it, or None
    resolutions,     \* number of Generator(...) constructions so far
    content,         \* the decoded text of the file being processed
    file_suffix,     \* path.suffix.lower() of that file
    processed,       \* the ProcessedFile that process_file returned
    minified         \* what each Minifier.minify pass so far returned

\* the state of configuration resolution, and of the processing of one file
cfgVars == <<PRESETS, root_entries, cli_config, file_conf, final_config,
             detected, resolutions>>
minVars == <<content, file_suffix, processed, minified>>

runVars == <<config, listing_asc, pc, rootIdx, walkStack, cache, seen_paths,
             files, file_paths, idx, is_first_file, skipped, tmp, tmp_bound,
             unlink_failed, unreadable, dest, destBefore, generated_dir,
             opened, clock, run, firstDoc>>

vars == <<runVars, cfgVars, minVars>>

----------------------------------------------------------------------------
(* Bounds *)

MaxClock == 1
MaxRuns == 2
MaxResolves == 2
MaxPieces == 4
MaxPasses == 2

----------------------------------------------------------------------------
(* Text *)

\* the characters used, in code-point order (str comparison order)
Ascii ==
    <<"*", ".", "/", "2", "3", "4", "7", "?", "_",
      "a", "b", "c", "d", "e", "f", "g", "h", "i", "j", "k", "l", "m",
      "n", "o", "p", "q", "r", "s", "t", "u", "v", "w", "x", "y", "z">>

Code(c) == CHOOSE i \in 1..Len(Ascii) : Ascii[i] = c

RECURSIVE StrLess(_, _)
StrLess(s, t) ==
    IF t = <<>> THEN FALSE
    ELSE IF s = <<>> THEN TRUE
    ELSE IF Head(s) = Head(t) THEN StrLess(Tail(s), Tail(t))
    ELSE Code(Head(s)) < Code(Head(t))

StartsWith(s, prefix) ==
    /\ Len(prefix) <= Len(s)
    /\ SubSeq(s, 1, Len(prefix)) = prefix

\* the spelling of each file-system name of the modelled tree
Spell(n) ==
    CASE n = "p" -> <<"p">>
      [] n = "a.py" -> <<"a", ".", "p", "y">>
      [] n = "b.png" -> <<"b", ".", "p", "n", "g">>
      [] n = "e.py" -> <<"e", ".", "p", "y">>
      [] n = "l.py" -> <<"l", ".", "p", "y">>
      [] n = "build" -> <<"b", "u", "i", "l", "d">>
      [] n = "x.py" -> <<"x", ".", "p", "y">>
      [] n = ".git" -> <<".", "g", "i", "t">>
      [] n = "c.py" -> <<"c", ".", "p", "y">>
      [] n = ".context" -> <<".", "c", "o", "n", "t", "e", "x", "t">>
      [] n = "generated" -> <<"g", "e", "n", "e", "r", "a", "t", "e", "d">>
      [] n = "context.txt" ->
            <<"c", "o", "n", "t", "e", "x", "t", ".", "t", "x", "t">>
      [] n = "out" -> <<"o", "u", "t">>
      [] n = "ctx.txt" -> <<"c", "t", "x", ".", "t", "x", "t">>
      [] n = "nope" -> <<"n", "o", "p", "e">>
      [] n = "new" -> <<"n", "e", "w">>
      \* the indicator names of ProjectDetector.INDICATORS, and a solution file
      [] n = "requirements.txt" ->
            <<"r", "e", "q", "u", "i", "r", "e", "m",
              "e", "n", "t", "s", ".", "t", "x", "t">>
      [] n = "requirements-dev.txt" ->
            <<"r", "e", "q", "u", "i", "r", "e", "m", "e", "n",
              "t", "s", "-", "d", "e", "v", ".", "t", "x", "t">>
      [] n = "pyproject.toml" ->
            <<"p", "y", "p", "r", "o", "j", "e",
              "c", "t", ".", "t", "o", "m", "l">>
      [] n = "setup.py" -> <<"s", "e", "t", "u", "p", ".", "p", "y">>
      [] n = "Pipfile" -> <<"P", "i", "p", "f", "i", "l", "e">>
      [] n = "package.json" ->
            <<"p", "a", "c", "k", "a", "g",
              "e", ".", "j", "s", "o", "n">>
      [] n = "node_modules" ->
            <<"n", "o", "d", "e", "_", "m",
              "o", "d", "u", "l", "e", "s">>
      [] n = "pom.xml" -> <<"p", "o", "m", ".", "x", "m", "l">>
      [] n = "build.gradle" ->
            <<"b", "u", "i", "l", "d", ".",
              "g", "r", "a", "d", "l", "e">>
      [] n = "build.gradle.kts" ->
            <<"b", "u", "i", "l", "d", ".", "g", "r",
              "a", "d", "l", "e", ".", "k", "t", "s">>
      [] n = "*.csproj" -> <<"*", ".", "c", "s", "p", "r", "o", "j">>
      [] n = "*.sln" -> <<"*", ".", "s", "l", "n">>
      [] n = "Gemfile" -> <<"G", "e", "m", "f", "i", "l", "e">>
      [] n = "Rakefile" -> <<"R", "a", "k", "e", "f", "i", "l", "e">>
      [] n = "go.mod" -> <<"g", "o", ".", "m", "o", "d">>
      [] n = "Cargo.toml" ->
            <<"C", "a", "r", "g", "o",
              ".", "t", "o", "m", "l">>
      [] n = "composer.json" ->
            <<"c", "o", "m", "p", "o", "s",
              "e", "r", ".", "j", "s", "o", "n">>
      [] n = "CMakeLists.txt" ->
            <<"C", "M", "a", "k", "e", "L", "i",
              "s", "t", "s", ".", "t", "x", "t">>
      [] n = "Makefile" -> <<"M", "a", "k", "e", "f", "i", "l", "e">>
      [] n = "Package.swift" ->
            <<"P", "a", "c", "k", "a", "g",
              "e", ".", "s", "w", "i", "f", "t">>
      [] n = "*.xcodeproj" ->
            <<"*", ".", "x", "c", "o",
              "d", "e", "p", "r", "o", "j">>
      [] n = "app.sln" -> <<"a", "p", "p", ".", "s", "l", "n">>

\* fnmatch.translate + re.match: "*" is any run of characters ("/" too),
\* "?" is one character, anything else is itself; the match is anchored at
\* both ends.  (Bracket classes do not occur in the modelled patterns.)
RECURSIVE Glob(_, _)
Glob(pat, s) ==
    IF pat = <<>> THEN s = <<>>
    ELSE IF Head(pat) = "*"
         THEN \E k \in 0..Len(s) : Glob(Tail(pat), SubSeq(s, k + 1, Len(s)))
    ELSE IF Head(pat) = "?"
         THEN s # <<>> /\ Glob(Tail(pat), Tail(s))
    ELSE s # <<>> /\ Head(s) = Head(pat) /\ Glob(Tail(pat), Tail(s))

matches(path_str, patterns) ==
    \E i \in 1..Len(patterns) : Glob(patterns[i], path_str)

----------------------------------------------------------------------------
(* Constants of the program *)

CONTEXT_DIR_NAME == ".context"
GENERATED_DIR_NAME == "generated"
DEFAULT_OUTPUT_NAME == "context.txt"

DEFAULT_EXCLUDE_PATTERNS ==
    << <<"*", "/", ".", "*">>,
       <<"d", "i", "s", "t">>,
       <<"b", "u", "i", "l", "d">>,
       <<"n", "o", "d", "e", "_", "m", "o", "d", "u", "l", "e", "s">>,
       <<"_", "_", "p", "y", "c", "a", "c", "h", "e", "_", "_">>,
       Spell(CONTEXT_DIR_NAME) \o <<"/", "*">> >>

BINARY_FILE_EXTENSIONS == {
    <<".", "p", "n", "g">>, <<".", "j", "p", "g">>,
    <<".", "j", "p", "e", "g">>, <<".", "g", "i", "f">>,
    <<".", "b", "m", "p">>, <<".", "i", "c", "o">>, <<".", "s", "v", "g">>,
    <<".", "w", "e", "b", "p">>, <<".", "z", "i", "p">>,
    <<".", "t", "a", "r">>, <<".", "g", "z">>, <<".", "b", "z", "2">>,
    <<".", "7", "z">>, <<".", "r", "a", "r">>, <<".", "p", "d", "f">>,
    <<".", "d", "o", "c">>, <<".", "d", "o", "c", "x">>,
    <<".", "x", "l", "s">>, <<".", "x", "l", "s", "x">>,
    <<".", "p", "p", "t">>, <<".", "p", "p", "t", "x">>,
    <<".", "e", "x", "e">>, <<".", "d", "l", "l">>, <<".", "s", "o">>,
    <<".", "d", "y", "l", "i", "b">>, <<".", "o">>, <<".", "a">>,
    <<".", "l", "i", "b">>, <<".", "m", "p", "3">>, <<".", "w", "a", "v">>,
    <<".", "f", "l", "a", "c">>, <<".", "a", "a", "c">>,
    <<".", "o", "g", "g">>, <<".", "w", "m", "a">>, <<".", "m", "p", "4">>,
    <<".", "m", "o", "v">>, <<".", "a", "v", "i">>, <<".", "m", "k", "v">>,
    <<".", "w", "e", "b", "m">>, <<".", "f", "l", "v">>,
    <<".", "c", "l", "a", "s", "s">>, <<".", "j", "a", "r">>,
    <<".", "p", "y", "c">>, <<".", "p", "y", "o">>, <<".", "p", "y", "d">>,
    <<".", "d", "b">>, <<".", "s", "q", "l", "i", "t", "e">>,
    <<".", "s", "q", "l", "i", "t", "e", "3">>, <<".", "t", "t", "f">>,
    <<".", "o", "t", "f">>, <<".", "w", "o", "f", "f">>,
    <<".", "w", "o", "f", "f", "2">>, <<".", "e", "o", "t">> }

OutputFormat == {"text", "json", "markdown"}

----------------------------------------------------------------------------
(* Paths and the file system the tool runs on *)

\* a file that does not exist; an existing file holds the chunks written
Absent == [exists |-> FALSE, data |-> <<>>]
Infinity == -1

\* PathManager.get_project_root(): the working directory /p
ProjectRoot == <<"p">>

get_context_dir == ProjectRoot \o <<CONTEXT_DIR_NAME>>
get_generated_dir == get_context_dir \o <<GENERATED_DIR_NAME>>

Name(path) == path[Len(path)]
Parent(path) == SubSeq(path, 1, Len(path) - 1)
IsUnder(path, dir) == Len(dir) < Len(path) /\ SubSeq(path, 1, Len(dir)) = dir

\* Path.as_posix() of an absolute path: "/" before every component
RECURSIVE as_posix(_)
as_posix(path) ==
    IF path = <<>> THEN <<>>
    ELSE <<"/">> \o Spell(Head(path)) \o as_posix(Tail(path))

\* PurePath.suffix: the name from its last dot on, when that dot is neither
\* the first nor the last character of the name
suffix(path) ==
    LET nm == Spell(Name(path))
        dots == {i \in 1..Len(nm) : nm[i] = "."}
        last == IF dots = {} THEN 0
                ELSE CHOOSE i \in dots : \A j \in dots : j <= i
    IN  IF 1 < last /\ last < Len(nm) THEN SubSeq(nm, last, Len(nm))
        ELSE <<>>

\* the part of a path below the project root, as components
RelParts(path) == SubSeq(path, Len(ProjectRoot) + 1, Len(path))

\* PathManager.rel_to_project_root: str(path.relative_to(project_root)),
\* and str(path) when the path is not below the project root
rel_to_project_root(path) ==
    IF path = ProjectRoot THEN <<".">>
    ELSE IF IsUnder(path, ProjectRoot)
         THEN Tail(as_posix(RelParts(path)))
    ELSE as_posix(path)

\* the tree: directories, regular files and one symbolic link to a file
StaticDirs ==
    { ProjectRoot,
      ProjectRoot \o <<".context">>,
      ProjectRoot \o <<".git">>,
      ProjectRoot \o <<"build">>,
      ProjectRoot \o <<"out">> }

StaticFiles ==
    { ProjectRoot \o <<"a.py">>,
      ProjectRoot \o <<"b.png">>,
      ProjectRoot \o <<"e.py">>,
      ProjectRoot \o <<"build", "x.py">>,
      ProjectRoot \o <<".git", "c.py">> }

Symlinks == { ProjectRoot \o <<"l.py">> }

\* Path.resolve(): a symbolic link is replaced by its target
resolve(path) ==
    IF path = ProjectRoot \o <<"l.py">> THEN ProjectRoot \o <<"b.png">>
    ELSE path

\* the names os.scandir gives for a directory, in ascending order; the
\* previous output is listed when it exists in a scanned directory
DirNames(d) ==
    IF d = ProjectRoot THEN <<".context", ".git", "build", "out">>
    ELSE <<>>

FileNames(d, outExists) ==
    CASE d = ProjectRoot -> <<"a.py", "b.png", "e.py", "l.py">>
      [] d = ProjectRoot \o <<"build">> -> <<"x.py">>
      [] d = ProjectRoot \o <<".git">> -> <<"c.py">>
      [] d = ProjectRoot \o <<"out">> ->
            IF outExists /\ Parent(config.output) = d
            THEN <<Name(config.output)>> ELSE <<>>
      [] OTHER -> <<>>

is_dir(path) ==
    \/ path \in StaticDirs
    \/ path = get_generated_dir /\ generated_dir

is_file(path) ==
    \/ resolve(path) \in StaticFiles
    \/ path = config.output /\ dest.exists

exists(path) == is_dir(path) \/ is_file(path)

\* st_size, whether the leading sample holds a NUL byte, and the text
Size(path) ==
    CASE path = ProjectRoot \o <<"a.py">> -> 2
      [] path = ProjectRoot \o <<"b.png">> -> 3
      [] path = ProjectRoot \o <<"e.py">> -> 0
      [] path = ProjectRoot \o <<"build", "x.py">> -> 5
      [] OTHER -> 1

HasNul(path) == path = ProjectRoot \o <<"b.png">>

Content(path) ==
    IF path = ProjectRoot \o <<"e.py">> THEN <<>> ELSE <<Name(path)>>

\* files that may be unreadable (open() fails)
Flaky == { ProjectRoot \o <<"a.py">> }

Reverse(s) == [i \in 1..Len(s) |-> s[Len(s) + 1 - i]]

Listing(names, asc) == IF asc THEN names ELSE Reverse(names)

----------------------------------------------------------------------------
(* SmartFilter *)

CachePut(c, key, v) ==
    [k \in DOMAIN c \cup {key} |-> IF k = key THEN v ELSE c[k]]

\* the string the exclude patterns are matched against
path_str(path) == as_posix(path)

\* rule 1: the tool's own directory
InContextDir(path) ==
    StartsWith(rel_to_project_root(path), Spell(CONTEXT_DIR_NAME))

\* rule 2: the binary-extension fast path
HasBinaryExtension(path) == suffix(path) \in BINARY_FILE_EXTENSIONS

\* rule 3: the common excludes
CommonExcluded(path) ==
    /\ config.exclude_common
    /\ \/ StartsWith(Spell(Name(path)), <<".">>)
       \/ matches(path_str(path), DEFAULT_EXCLUDE_PATTERNS)

\* rule 4: the configured exclude patterns
CustomExcluded(path) == matches(path_str(path), config.exclude)

\* rule 5: a file must match one include pattern when any is configured
NotIncluded(path) ==
    /\ config.include # <<>>
    /\ is_file(path)
    /\ ~matches(Spell(Name(path)), config.include)

\* the decision should_process computes on a cache miss
Decide(path) ==
    /\ ~InContextDir(path)
    /\ ~HasBinaryExtension(path)
    /\ ~CommonExcluded(path)
    /\ ~CustomExcluded(path)
    /\ ~NotIncluded(path)

\* should_process: the value returned and the cache it leaves
should_process(c, path) ==
    LET key == resolve(path)
    IN  IF key \in DOMAIN c
        THEN [ret |-> c[key], cache |-> c]
        ELSE [ret |-> Decide(path), cache |-> CachePut(c, key, Decide(path))]

\* should_process over a list, threading the cache, keeping the accepted
RECURSIVE FilterAll(_, _)
FilterAll(ps, c) ==
    IF ps = <<>> THEN [cache |-> c, kept |-> <<>>]
    ELSE LET r == should_process(c, Head(ps))
             rest == FilterAll(Tail(ps), r.cache)
         IN  [cache |-> rest.cache,
              kept |-> IF r.ret THEN <<Head(ps)>> \o rest.kept
                       ELSE rest.kept]

\* (variant: every accepted file is yielded, seen before or not)
RECURSIVE YieldAllNoDedup(_, _, _)
YieldAllNoDedup(ps, seen, out) ==
    IF ps = <<>> THEN [seen |-> seen, out |-> out]
    ELSE YieldAllNoDedup(Tail(ps), seen \cup {resolve(Head(ps))},
                         Append(out, resolve(Head(ps))))

\* the yield of each accepted file whose resolved path is new
RECURSIVE YieldAll(_, _, _)
YieldAll(ps, seen, out) ==
    IF ps = <<>> THEN [seen |-> seen, out |-> out]
    ELSE LET resolved_path == resolve(Head(ps))
         IN  IF resolved_path \in seen
             THEN YieldAll(Tail(ps), seen, out)
             ELSE YieldAll(Tail(ps), seen \cup {resolved_path},
                           Append(out, resolved_path))

----------------------------------------------------------------------------
(* FileProcessor and the formatters *)

max_file_size_bytes == config.max_file_size_bytes

\* process_file: the ProcessedFile, and whether the file was opened; an
\* unexpected failure (open() raising) is caught and reported as a skip
process_file(path) ==
    IF max_file_size_bytes # Infinity /\ Size(path) > max_file_size_bytes
    THEN [skipped |-> TRUE, opens |-> FALSE, reason |-> "Exceeds max size"]
    ELSE IF path \in unreadable
    THEN [skipped |-> TRUE, opens |-> FALSE, reason |-> "Error reading file"]
    ELSE IF HasNul(path)
    THEN [skipped |-> TRUE, opens |-> TRUE, reason |-> "Binary file detected"]
    ELSE IF Content(path) = <<>>
    THEN [skipped |-> TRUE, opens |-> TRUE, reason |-> "Empty file"]
    ELSE [skipped |-> FALSE, opens |-> TRUE, reason |-> "none"]

Chunk(k, count, time, path) ==
    [k |-> k, fmt |-> config.output_format, count |-> count, time |-> time,
     path |-> path, content |-> IF k = "file" THEN Content(path) ELSE <<>>,
     size |-> IF k = "file" THEN Size(path) ELSE 0]

\* write_header: one block holding the file count and the timestamp
write_header(file_count, now) == <<Chunk("header", file_count, now, <<>>)>>

\* write_file: the entry, after ",\n" for every JSON entry but the first
write_file(path, first) ==
    IF config.output_format = "json" /\ ~first
    THEN <<Chunk("sep", 0, 0, <<>>), Chunk("file", 0, 0, RelParts(path))>>
    ELSE <<Chunk("file", 0, 0, RelParts(path))>>

\* write_footer: only the JSON formatter writes one
write_footer ==
    IF config.output_format = "json" THEN <<Chunk("footer", 0, 0, <<>>)>>
    ELSE <<>>

----------------------------------------------------------------------------
(* Initial state *)

DefaultOutput == get_generated_dir \o <<DEFAULT_OUTPUT_NAME>>

\* a directory named in an output path that does not exist yet
MissingDir == ProjectRoot \o <<"new">>

\* the default, and two outputs given with a directory of their own
OutputChoices ==
    { DefaultOutput,
      ProjectRoot \o <<"out", "ctx.txt">>,
      MissingDir \o <<"ctx.txt">> }

PathsChoices ==
    { <<ProjectRoot>>,
      <<ProjectRoot \o <<"build">>, ProjectRoot>>,
      <<ProjectRoot \o <<"a.py">>, ProjectRoot \o <<"nope">>, ProjectRoot,
        ProjectRoot>> }

IncludeChoices == { <<>>, << <<"*", ".", "p", "y">> >> }

ExcludeChoices ==
    { <<>>,
      << <<"b", "u", "i", "l", "d", "/", "*">> >>,
      << <<"*", "/", "b", "u", "i", "l", "d">> >> }

SizeChoices == { Infinity, 4 }

\* what the destination held before the tool ran
OldDoc == [exists |-> TRUE, data |-> <<Chunk("old", 0, 0, <<>>)>>]

EmptyCache == [k \in {} |-> TRUE]

----------------------------------------------------------------------------
(* ProjectDetector *)

\* ProjectDetector.PRESETS as the class body builds it
BuiltinPresets ==
    [python |->
        [include |-> <<"*.py", "requirements*.txt", "pyproject.toml",
                       "setup.py", "*.pyx", "*.pyi">>,
         exclude |-> <<"*.pyc", "*.pyo", "*.pyd", "*.egg-info/*", "venv/*",
                       ".venv/*", "__pycache__/*">>],
     javascript |->
        [include |-> <<"*.js", "*.jsx", "*.ts", "*.tsx", "*.mjs", "*.cjs",
                       "package.json", "tsconfig.json", "*.vue", "*.svelte",
                       "*.html", "*.css", "*.scss", "*.less">>,
         exclude |-> <<"*.log", "package-lock.json", "yarn.lock",
                       "pnpm-lock.yaml", "*.map">>],
     java |->
        [include |-> <<"*.java", "*.xml", "*.properties", "pom.xml",
                       "build.gradle*", "*.kt">>,
         exclude |-> <<"*.class", "*.jar", "target/*", "build/*">>],
     csharp |->
        [include |-> <<"*.cs", "*.csproj", "*.sln", "*.xaml", "*.config",
                       "*.resx">>,
         exclude |-> <<"bin/*", "obj/*", "*.dll", "*.exe">>],
     ruby |->
        [include |-> <<"*.rb", "*.erb", "*.rake", "Gemfile", "Rakefile",
                       "*.ru">>,
         exclude |-> <<"Gemfile.lock", "vendor/*">>],
     go |->
        [include |-> <<"*.go", "go.mod", "go.sum", "*.proto">>,
         exclude |-> <<"vendor/*">>],
     rust |->
        [include |-> <<"*.rs", "Cargo.toml", "Cargo.lock">>,
         exclude |-> <<"target/*">>],
     php |->
        [include |-> <<"*.php", "composer.json", "*.blade.php">>,
         exclude |-> <<"vendor/*", "composer.lock">>],
     cpp |->
        [include |-> <<"*.cpp", "*.cc", "*.cxx", "*.h", "*.hpp", "*.hxx",
                       "CMakeLists.txt", "*.cmake">>,
         exclude |-> <<"*.o", "*.obj", "build/*", "cmake-build-*/*">>],
     swift |->
        [include |-> <<"*.swift", "Package.swift", "*.xcodeproj/*",
                       "*.xcworkspace/*">>,
         exclude |-> <<"*.xcuserdata/*", "build/*", "DerivedData/*">>]]

\* ProjectDetector.INDICATORS, in the order the dict literal lists them
INDICATORS ==
    << [name |-> "python",
        indicators |-> <<"requirements.txt", "requirements-dev.txt",
                         "pyproject.toml", "setup.py", "Pipfile">>],
       [name |-> "javascript",
        indicators |-> <<"package.json", "node_modules">>],
       [name |-> "java",
        indicators |-> <<"pom.xml", "build.gradle", "build.gradle.kts">>],
       [name |-> "csharp", indicators |-> <<"*.csproj", "*.sln">>],
       [name |-> "ruby", indicators |-> <<"Gemfile", "Rakefile">>],
       [name |-> "go", indicators |-> <<"go.mod">>],
       [name |-> "rust", indicators |-> <<"Cargo.toml">>],
       [name |-> "php", indicators |-> <<"composer.json">>],
       [name |-> "cpp", indicators |-> <<"CMakeLists.txt", "Makefile">>],
       [name |-> "swift",
        indicators |-> <<"Package.swift", "*.xcodeproj">>] >>

\* one indicator against the entries of the root: path.glob(indicator)
\* for a pattern, (path / indicator).exists() for a plain name
indicator_present(indicator, entries) ==
    IF \E i \in 1..Len(Spell(indicator)) : Spell(indicator)[i] = "*"
    THEN \E e \in entries : Glob(Spell(indicator), Spell(e))
    ELSE indicator \in entries

has_indicator(i, entries) ==
    \E k \in 1..Len(INDICATORS[i].indicators) :
        indicator_present(INDICATORS[i].indicators[k], entries)

RECURSIVE detect_from(_, _)
detect_from(i, entries) ==
    IF i > Len(INDICATORS) THEN "generic"
    ELSE IF has_indicator(i, entries) THEN INDICATORS[i].name
    ELSE detect_from(i + 1, entries)

detect_last_listed(entries) ==
    IF \E i \in 1..Len(INDICATORS) : has_indicator(i, entries)
    THEN INDICATORS[CHOOSE i \in 1..Len(INDICATORS) :
                        /\ has_indicator(i, entries)
                        /\ \A j \in (i + 1)..Len(INDICATORS) :
                               ~has_indicator(j, entries)].name
    ELSE "generic"
detect(entries) ==
    detect_from(1, entries)

\* dict.get(key, default)
get(d, key, default) == IF key \in DOMAIN d THEN d[key] ELSE default

\* the empty dict
EmptyDict == [k \in {} |-> <<>>]

get_preset_config(table, name) == get(table, name, EmptyDict)

----------------------------------------------------------------------------
(* Generator._resolve_config *)

None == "None"
DEFAULT_MAX_FILE_SIZE_MB == 1

\* a pathlib.Path: absolute (parts below "/") or relative to the working
\* directory
AbsPath(parts) == [absolute |-> TRUE, parts |-> parts]
RelPath(parts) == [absolute |-> FALSE, parts |-> parts]

\* path.parent == Path(".") for a path that names a file: a bare file name
parent_is_dot(path) == ~path.absolute /\ Len(path.parts) = 1

default_output == AbsPath(DefaultOutput)

\* Config(): the dataclass defaults
ConfigDefaults ==
    [paths |-> <<AbsPath(ProjectRoot)>>,
     output |-> default_output,
     preset |-> "auto",
     include |-> <<>>,
     exclude |-> <<>>,
     exclude_common |-> TRUE,
     max_file_size_mb |-> DEFAULT_MAX_FILE_SIZE_MB,
     output_format |-> "text",
     minify |-> FALSE,
     verbose |-> FALSE,
     dry_run |-> FALSE]

\* list(dict.fromkeys(seq)): the first occurrence of each element, in order
RECURSIVE fromkeys(_)
fromkeys(seq) ==
    IF seq = <<>> THEN <<>>
    ELSE LET init == fromkeys(SubSeq(seq, 1, Len(seq) - 1))
             last == seq[Len(seq)]
         IN  IF \E i \in 1..Len(init) : init[i] = last THEN init
             ELSE Append(init, last)

\* cli_config.preset or file_conf.get("preset", "auto"), then detection
named_preset(cli, file) ==
    IF cli.preset # None THEN cli.preset ELSE get(file, "preset", "auto")

preset_name(entries, cli, file) ==
    IF named_preset(cli, file) = "auto" THEN detect(entries)
    ELSE named_preset(cli, file)

\* preset_conf.get(key, []) followed by the two extend() calls: for a
\* preset of the table the list extended is the table's own list
extended(table, name, key, cli, file) ==
    get(get_preset_config(table, name), key, <<>>)
        \o get(file, key, <<>>) \o cli[key]

\* the table after the extend() calls
presets_after(table, name, cli, file) ==
    IF name \in DOMAIN table
    THEN [table EXCEPT ![name] =
            [include |-> extended(table, name, "include", cli, file),
             exclude |-> extended(table, name, "exclude", cli, file)]]
    ELSE table

resolve_paths(cli, file) ==
    IF cli.paths # <<AbsPath(ProjectRoot)>> THEN cli.paths
    ELSE get(file, "paths", <<RelPath(<<>>)>>)

in_generated_dir(name) == AbsPath(get_generated_dir \o <<name>>)

normalized(path) ==
    IF parent_is_dot(path) THEN in_generated_dir(Name(path.parts))
    ELSE path

resolve_output(cli, file) ==
    IF cli.output # default_output THEN normalized(cli.output)
    ELSE normalized(get(file, "output", RelPath(<<DEFAULT_OUTPUT_NAME>>)))

other_settings_cli_always(cli, file) ==
    [max_file_size_mb |-> cli.max_file_size_mb,
     output_format |-> cli.output_format,
     minify |-> cli.minify,
     verbose |-> cli.verbose,
     output |-> normalized(cli.output)]
other_settings(cli, file) ==
    [max_file_size_mb |->
        IF cli.max_file_size_mb # DEFAULT_MAX_FILE_SIZE_MB
        THEN cli.max_file_size_mb
        ELSE get(file, "max_file_size_mb", DEFAULT_MAX_FILE_SIZE_MB),
     output_format |->
        IF cli.output_format # "text" THEN cli.output_format
        ELSE get(file, "format", "text"),
     minify |-> cli.minify \/ get(file, "minify", FALSE),
     verbose |-> cli.verbose \/ get(file, "verbose", FALSE),
     output |-> resolve_output(cli, file)]

\* the Config that _resolve_config returns
resolve_config(table, entries, cli, file) ==
    LET name == preset_name(entries, cli, file)
        other == other_settings(cli, file)
    IN  [ConfigDefaults EXCEPT
            !.include = fromkeys(extended(table, name, "include", cli, file)),
            !.exclude = fromkeys(extended(table, name, "exclude", cli, file)),
            !.paths = resolve_paths(cli, file),
            !.output = other.output,
            !.max_file_size_mb = other.max_file_size_mb,
            !.output_format = other.output_format,
            !.minify = other.minify,
            !.verbose = other.verbose,
            !.dry_run = cli.dry_run]

\* no Generator has been constructed
CfgIdle ==
    /\ PRESETS = BuiltinPresets
    /\ root_entries = {}
    /\ cli_config = ConfigDefaults
    /\ file_conf = EmptyDict
    /\ final_config = ConfigDefaults
    /\ detected = None
    /\ resolutions = 0

(* Minifier *)

\* what str.strip(), str.rstrip() and \s take for white space, of the
\* modelled characters
Whitespace == {" ", "\n"}

Min(S) == CHOOSE x \in S : \A y \in S : x <= y

RECURSIVE rstrip(_)
rstrip(s) ==
    IF s # <<>> /\ s[Len(s)] \in Whitespace
    THEN rstrip(SubSeq(s, 1, Len(s) - 1))
    ELSE s

RECURSIVE lstrip(_)
lstrip(s) ==
    IF s # <<>> /\ Head(s) \in Whitespace THEN lstrip(Tail(s)) ELSE s

strip(s) == lstrip(rstrip(s))

\* index of the first line break of s, or 0
FirstNewline(s) ==
    LET breaks == {i \in 1..Len(s) : s[i] = "\n"}
    IN  IF breaks = {} THEN 0 ELSE Min(breaks)

\* str.splitlines(): no empty last line after a final line break
RECURSIVE splitlines(_)
splitlines(s) ==
    IF s = <<>> THEN <<>>
    ELSE LET k == FirstNewline(s)
         IN  IF k = 0 THEN <<s>>
             ELSE <<SubSeq(s, 1, k - 1)>>
                      \o splitlines(SubSeq(s, k + 1, Len(s)))

\* "\n".join(lines)
RECURSIVE join(_)
join(lines) ==
    IF lines = <<>> THEN <<>>
    ELSE IF Len(lines) = 1 THEN lines[1]
    ELSE lines[1] \o <<"\n">> \o join(Tail(lines))

\* re.sub(r"//.*$", "", line) on one line
sub_line_comment(line) ==
    LET hits == {i \in 1..(Len(line) - 1) :
                    line[i] = "/" /\ line[i + 1] = "/"}
    IN  IF hits = {} THEN line ELSE SubSeq(line, 1, Min(hits) - 1)

\* re.sub(r"#(?!!).*$", "", line) on one line
sub_hash_comment(line) ==
    LET hits == {i \in 1..Len(line) :
                    /\ line[i] = "#"
                    /\ ~(i + 1 <= Len(line) /\ line[i + 1] = "!")}
    IN  IF hits = {} THEN line ELSE SubSeq(line, 1, Min(hits) - 1)

\* re.sub(r"/\*.*?\*/", "", s, flags=re.DOTALL): leftmost, shortest,
\* non-overlapping matches
RECURSIVE sub_block_comments(_)
sub_block_comments(s) ==
    LET opens == {i \in 1..(Len(s) - 1) : s[i] = "/" /\ s[i + 1] = "*"}
    IN  IF opens = {} THEN s
        ELSE LET i == Min(opens)
                 closes == {j \in (i + 2)..(Len(s) - 1) :
                               s[j] = "*" /\ s[j + 1] = "/"}
             IN  IF closes = {} THEN s
                 ELSE SubSeq(s, 1, i - 1)
                          \o sub_block_comments(
                                 SubSeq(s, Min(closes) + 2, Len(s)))

\* the loop of _minify_generic from line i on: the lines appended to res
RECURSIVE generic_lines(_, _)
generic_lines(lines, i) ==
    IF i > Len(lines) THEN <<>>
    ELSE LET line == lines[i]
             newline == sub_hash_comment(sub_line_comment(line))
             res == IF i = 1 /\ StartsWith(line, <<"#", "!">>) THEN <<line>>
                    ELSE IF strip(newline) # <<>> THEN <<rstrip(newline)>>
                    ELSE <<>>
         IN  res \o generic_lines(lines, i + 1)

minify_generic(text) ==
    sub_block_comments(join(generic_lines(splitlines(text), 1)))

\* re.sub(r"//.*$", "", s, flags=re.MULTILINE): each line is cut at its
\* first "//", the line breaks stay
RECURSIVE sub_line_comments(_)
sub_line_comments(s) ==
    IF s = <<>> THEN <<>>
    ELSE IF Len(s) >= 2 /\ s[1] = "/" /\ s[2] = "/"
         THEN LET k == FirstNewline(s)
              IN  IF k = 0 THEN <<>>
                  ELSE sub_line_comments(SubSeq(s, k, Len(s)))
    ELSE <<Head(s)>> \o sub_line_comments(Tail(s))

\* [line.rstrip() for line in lines if line.strip()]
RECURSIVE nonblank_rstripped(_)
nonblank_rstripped(lines) ==
    IF lines = <<>> THEN <<>>
    ELSE (IF strip(Head(lines)) # <<>> THEN <<rstrip(Head(lines))>>
          ELSE <<>>) \o nonblank_rstripped(Tail(lines))

minify_javascript(text) ==
    join(nonblank_rstripped(
        splitlines(sub_block_comments(sub_line_comments(text)))))

\* re.sub(r"\s+", " ", s), from index i on
RECURSIVE sub_whitespace_runs(_, _)
sub_whitespace_runs(s, i) ==
    IF i > Len(s) THEN <<>>
    ELSE (IF s[i] \notin Whitespace THEN <<s[i]>>
          ELSE IF i > 1 /\ s[i - 1] \in Whitespace THEN <<>>
          ELSE <<" ">>) \o sub_whitespace_runs(s, i + 1)

CssPunctuation == {"{", "}", ":", ";", ","}

\* re.sub(r"\s*([{}:;,])\s*", r"\1", s), from index i on: white space next
\* to one of the five characters goes
RECURSIVE sub_around_punctuation(_, _)
sub_around_punctuation(s, i) ==
    IF i > Len(s) THEN <<>>
    ELSE (IF /\ s[i] \in Whitespace
             /\ \/ (i > 1 /\ s[i - 1] \in CssPunctuation)
                \/ (i < Len(s) /\ s[i + 1] \in CssPunctuation)
          THEN <<>>
          ELSE <<s[i]>>) \o sub_around_punctuation(s, i + 1)

minify_css(text) ==
    strip(sub_around_punctuation(
        sub_whitespace_runs(sub_block_comments(text), 1), 1))

\* tokenize.generate_tokens raises TokenError ("EOF in multi-line
\* statement") when a bracket opened outside a comment is never closed; the
\* modelled characters hold no closing bracket, no quote and no tab
RECURSIVE tokenize_raises(_, _)
tokenize_raises(s, in_comment) ==
    IF s = <<>> THEN FALSE
    ELSE IF Head(s) = "\n" THEN tokenize_raises(Tail(s), FALSE)
    ELSE IF Head(s) = "#" THEN tokenize_raises(Tail(s), TRUE)
    ELSE IF Head(s) = "(" /\ ~in_comment THEN TRUE
    ELSE tokenize_raises(Tail(s), in_comment)

\* the tokenizer gives no token for the blanks of a last line that has
\* only blanks and no line break
without_blank_tail(s) ==
    LET k == IF \E i \in 1..Len(s) : s[i] = "\n"
             THEN Min({i \in 1..Len(s) :
                         s[i] = "\n" /\ \A j \in (i + 1)..Len(s) : s[j] # "\n"})
             ELSE 0
    IN  IF k < Len(s) /\ \A j \in (k + 1)..Len(s) : s[j] = " "
        THEN SubSeq(s, 1, k)
        ELSE s

\* tokenize.untokenize of the tokens other than COMMENT: it keeps every
\* token at its column, so the columns of a comment are filled with blanks
RECURSIVE untokenize(_, _)
untokenize(s, in_comment) ==
    IF s = <<>> THEN <<>>
    ELSE IF Head(s) = "\n" THEN <<"\n">> \o untokenize(Tail(s), FALSE)
    ELSE IF in_comment \/ Head(s) = "#"
         THEN <<" ">> \o untokenize(Tail(s), TRUE)
    ELSE <<Head(s)>> \o untokenize(Tail(s), FALSE)

minify_python(text) ==
    IF tokenize_raises(text, FALSE) THEN minify_generic(text)
    ELSE untokenize(without_blank_tail(text), FALSE)

\* Minifier.minify, ext being path.suffix.lower()
minify(text, ext) ==
    IF ext \in {".py"} THEN minify_python(text)
    ELSE IF ext \in {".js", ".jsx", ".ts", ".tsx", ".mjs", ".cjs"}
         THEN minify_javascript(text)
    ELSE IF ext \in {".css", ".scss", ".less"} THEN minify_css(text)
    ELSE minify_generic(text)

\* FileProcessor.process_file from the decoded text on (lines 631-643)
process_text(text, ext, minify_on) ==
    LET out == IF minify_on THEN minify(text, ext) ELSE text
    IN  IF strip(out) = <<>>
        THEN [state |-> "skipped", content |-> <<>>, minify |-> minify_on,
              reason |-> IF minify_on THEN "Empty after minification"
                         ELSE "Empty or whitespace-only file"]
        ELSE [state |-> "included", content |-> out, minify |-> minify_on,
              reason |-> ""]

Unprocessed ==
    [state |-> "none", content |-> <<>>, minify |-> FALSE, reason |-> ""]

\* no file is being processed
MinIdle ==
    /\ content = <<>>
    /\ file_suffix = ""
    /\ processed = Unprocessed
    /\ minified = <<>>

----------------------------------------------------------------------------
(* Initial state of a run *)

\* _resolve_config never copies exclude_common, so every run has the
\* default True; the order in which the file system lists a directory is a
\* property of the (unchanged) tree
RunInit ==
    /\ listing_asc \in BOOLEAN
    /\ config \in [paths : PathsChoices, output : OutputChoices,
                    include : IncludeChoices, exclude : ExcludeChoices,
                    exclude_common : {TRUE},
                    max_file_size_bytes : SizeChoices,
                    output_format : OutputFormat, dry_run : BOOLEAN]
    /\ dest \in {Absent, OldDoc}
    /\ Parent(config.output) = MissingDir => dest = Absent
    /\ destBefore = dest
    /\ generated_dir = (dest.exists /\ config.output = DefaultOutput)
    /\ pc = "collect"
    /\ rootIdx = 1
    /\ walkStack = <<>>
    /\ cache = EmptyCache
    /\ seen_paths = {}
    /\ files = <<>>
    /\ file_paths = <<>>
    /\ idx = 1
    /\ is_first_file = TRUE
    /\ skipped = {}
    /\ tmp = Absent
    /\ tmp_bound = FALSE
    /\ unlink_failed = FALSE
    /\ unreadable \in SUBSET Flaky
    /\ opened = {}
    /\ clock = 0
    /\ run = 1
    /\ firstDoc = Absent

Init ==
    /\ RunInit
    /\ CfgIdle
    /\ MinIdle

----------------------------------------------------------------------------
(* FileCollector.collect *)

start_path == config.paths[rootIdx]

Collecting == pc = "collect" /\ rootIdx <= Len(config.paths)

Under(root_path, names) ==
    [i \in 1..Len(names) |-> root_path \o <<names[i]>>]

\* a configured root that does not exist is reported and skipped
SkipMissingRoot ==
    /\ Collecting
    /\ ~exists(start_path)
    /\ rootIdx' = rootIdx + 1
    /\ UNCHANGED <<cfgVars, minVars,
                   config, listing_asc, pc, walkStack, cache, seen_paths,
                   files, file_paths, idx, is_first_file, skipped, tmp,
                   tmp_bound, unlink_failed, unreadable, dest, destBefore,
                   generated_dir, opened, clock, run, firstDoc>>

\* a root that is a file is filtered directly
CollectFileRoot ==
    /\ Collecting
    /\ exists(start_path)
    /\ is_file(start_path)
    /\ LET r == should_process(cache, start_path)
           y == IF r.ret THEN YieldAll(<<start_path>>, seen_paths, files)
                ELSE [seen |-> seen_paths, out |-> files]
       IN  /\ cache' = r.cache
           /\ seen_paths' = y.seen
           /\ files' = y.out
    /\ rootIdx' = rootIdx + 1
    /\ UNCHANGED <<cfgVars, minVars,
                   config, listing_asc, pc, walkStack, file_paths, idx,
                   is_first_file, skipped, tmp, tmp_bound, unlink_failed,
                   unreadable, dest, destBefore, generated_dir, opened,
                   clock, run, firstDoc>>

\* a root that is a directory starts an os.walk; the root is not filtered
BeginWalk ==
    /\ Collecting
    /\ exists(start_path)
    /\ ~is_file(start_path)
    /\ walkStack' = <<start_path>>
    /\ pc' = "walk"
    /\ UNCHANGED <<cfgVars, minVars,
                   config, listing_asc, rootIdx, cache, seen_paths, files,
                   file_paths, idx, is_first_file, skipped, tmp, tmp_bound,
                   unlink_failed, unreadable, dest, destBefore,
                   generated_dir, opened, clock, run, firstDoc>>

\* one iteration of the os.walk loop: the directory names are filtered in
\* place, then each file is filtered and yielded; os.walk descends into the
\* directories that were kept.  The file system lists a directory in an
\* order of its own (listing_asc).
WalkDir ==
    /\ pc = "walk"
    /\ walkStack # <<>>
    /\ LET root_path == Head(walkStack)
           d == FilterAll(
                  Under(root_path, Listing(DirNames(root_path), listing_asc)),
                  cache)
           f == FilterAll(
                  Under(root_path,
                        Listing(FileNames(root_path, dest.exists),
                                listing_asc)),
                  d.cache)
           y == YieldAll(f.kept, seen_paths, files)
       IN  /\ walkStack' = d.kept \o Tail(walkStack)
           /\ cache' = f.cache
           /\ seen_paths' = y.seen
           /\ files' = y.out
    /\ UNCHANGED <<cfgVars, minVars,
                   config, listing_asc, pc, rootIdx, file_paths, idx,
                   is_first_file, skipped, tmp, tmp_bound, unlink_failed,
                   unreadable, dest, destBefore, generated_dir, opened,
                   clock, run, firstDoc>>

\* os.walk is exhausted: on to the next configured root
EndWalk ==
    /\ pc = "walk"
    /\ walkStack = <<>>
    /\ pc' = "collect"
    /\ rootIdx' = rootIdx + 1
    /\ UNCHANGED <<cfgVars, minVars,
                   config, listing_asc, walkStack, cache, seen_paths, files,
                   file_paths, idx, is_first_file, skipped, tmp, tmp_bound,
                   unlink_failed, unreadable, dest, destBefore,
                   generated_dir, opened, clock, run, firstDoc>>

----------------------------------------------------------------------------
(* StreamingWriter.write *)

\* Path ordering: component by component, each compared as a string
RECURSIVE PathLess(_, _)
PathLess(a, b) ==
    IF b = <<>> THEN FALSE
    ELSE IF a = <<>> THEN TRUE
    ELSE IF Head(a) = Head(b) THEN PathLess(Tail(a), Tail(b))
    ELSE StrLess(Spell(Head(a)), Spell(Head(b)))

sorted(fs) == SortSeq(fs, PathLess)

\* the output file itself is taken out of the input set
IsOutput(p) == resolve(p) = resolve(config.output)

\* (variant: the candidates are passed on unfiltered)
KeepOutput(fs) == fs

ExcludeOutput(fs) == SelectSeq(fs, LAMBDA p : ~IsOutput(p))

\* (variant: the dry-run flag is not consulted)
DryRunIgnored == FALSE

\* dry-run mode returns after logging the list
DryRunReturns == config.dry_run

\* (variant: the formatter writes to the destination itself)
WritesToDestination == TRUE

\* whether the stream the formatter writes to is the destination file; it
\* is the NamedTemporaryFile created next to it
WritesInPlace == FALSE

\* sorted(list(files)), the output-path filter, then either the dry-run
\* log or ensure_generated_dir
WriteBegin ==
    /\ pc = "collect"
    /\ rootIdx > Len(config.paths)
    /\ file_paths' = ExcludeOutput(sorted(files))
    /\ IF DryRunReturns
       THEN pc' = "done" /\ UNCHANGED generated_dir
       ELSE pc' = "open" /\ generated_dir' = TRUE
    /\ UNCHANGED <<cfgVars, minVars,
                   config, listing_asc, rootIdx, walkStack, cache,
                   seen_paths, files, idx, is_first_file, skipped, tmp,
                   tmp_bound, unlink_failed, unreadable, dest, destBefore,
                   opened, clock, run, firstDoc>>

\* tempfile.NamedTemporaryFile(dir=output.parent): raises when it cannot
\* create the file
OpenTemp ==
    /\ pc = "open"
    /\ \E ok \in BOOLEAN :
         IF ok /\ is_dir(Parent(config.output))
         THEN /\ tmp' = [exists |-> TRUE, data |-> <<>>]
              /\ tmp_bound' = TRUE
              /\ pc' = "header"
         ELSE /\ pc' = "except"
              /\ UNCHANGED <<tmp, tmp_bound>>
    /\ UNCHANGED <<cfgVars, minVars,
                   config, listing_asc, rootIdx, walkStack, cache,
                   seen_paths, files, file_paths, idx, is_first_file,
                   skipped, unlink_failed, unreadable, dest, destBefore,
                   generated_dir, opened, clock, run, firstDoc>>

\* what a write of chunks leaves in the temporary file and the destination
Written(chunks) ==
    IF WritesInPlace
    THEN [tmp |-> tmp,
          dest |-> [exists |-> TRUE,
                    data |-> (IF dest = destBefore THEN <<>> ELSE dest.data)
                             \o chunks]]
    ELSE [tmp |-> [exists |-> TRUE, data |-> tmp.data \o chunks],
          dest |-> dest]

\* formatter.write_header(tmp, total_files)
WriteHeader ==
    /\ pc = "header"
    /\ \E ok \in BOOLEAN :
         IF ok
         THEN /\ tmp' = Written(write_header(Len(file_paths), clock)).tmp
              /\ dest' = Written(write_header(Len(file_paths), clock)).dest
              /\ pc' = "loop"
         ELSE /\ pc' = "except"
              /\ UNCHANGED <<tmp, dest>>
    /\ UNCHANGED <<cfgVars, minVars,
                   config, listing_asc, rootIdx, walkStack, cache,
                   seen_paths, files, file_paths, idx, is_first_file,
                   skipped, tmp_bound, unlink_failed, unreadable,
                   destBefore, generated_dir, opened, clock, run, firstDoc>>

\* (variant: a skipped file ends the loop with an exception)
ProcessNextHaltsOnSkip ==
    /\ pc = "loop"
    /\ idx <= Len(file_paths)
    /\ LET path == file_paths[idx] IN
       \E ok \in BOOLEAN :
         LET result == process_file(path) IN
         /\ opened' = IF result.opens THEN opened \cup {path} ELSE opened
         /\ IF ok /\ ~result.skipped
            THEN /\ tmp' = Written(write_file(path, is_first_file)).tmp
                 /\ dest' = Written(write_file(path, is_first_file)).dest
                 /\ is_first_file' = FALSE
                 /\ idx' = idx + 1
                 /\ UNCHANGED <<pc, skipped>>
            ELSE /\ pc' = "except"
                 /\ UNCHANGED <<tmp, dest, is_first_file, idx, skipped>>
    /\ UNCHANGED <<cfgVars, minVars,
                   config, listing_asc, rootIdx, walkStack, cache,
                   seen_paths, files, file_paths, tmp_bound, unlink_failed,
                   unreadable, destBefore, generated_dir, clock, run,
                   firstDoc>>

\* one pass of the per-file loop: process_file, then write_file unless the
\* file was skipped
ProcessNext ==
    /\ pc = "loop"
    /\ idx <= Len(file_paths)
    /\ LET path == file_paths[idx] IN
       \E ok \in BOOLEAN :
         LET result == process_file(path) IN
         /\ opened' = IF result.opens THEN opened \cup {path} ELSE opened
         /\ IF result.skipped
            THEN /\ skipped' = skipped \cup {path}
                 /\ idx' = idx + 1
                 /\ UNCHANGED <<pc, tmp, dest, is_first_file>>
            ELSE IF ok
            THEN /\ tmp' = Written(write_file(path, is_first_file)).tmp
                 /\ dest' = Written(write_file(path, is_first_file)).dest
                 /\ is_first_file' = FALSE
                 /\ idx' = idx + 1
                 /\ UNCHANGED <<pc, skipped>>
            ELSE /\ pc' = "except"
                 /\ UNCHANGED <<tmp, dest, is_first_file, idx, skipped>>
    /\ UNCHANGED <<cfgVars, minVars,
                   config, listing_asc, rootIdx, walkStack, cache,
                   seen_paths, files, file_paths, tmp_bound, unlink_failed,
                   unreadable, destBefore, generated_dir, clock, run,
                   firstDoc>>

\* formatter.write_footer(tmp) and the close that ends the with block
WriteFooter ==
    /\ pc = "loop"
    /\ idx > Len(file_paths)
    /\ \E ok \in BOOLEAN :
         IF ok
         THEN /\ tmp' = Written(write_footer).tmp
              /\ dest' = Written(write_footer).dest
              /\ pc' = "replace"
         ELSE /\ pc' = "except"
              /\ UNCHANGED <<tmp, dest>>
    /\ UNCHANGED <<cfgVars, minVars,
                   config, listing_asc, rootIdx, walkStack, cache,
                   seen_paths, files, file_paths, idx, is_first_file,
                   skipped, tmp_bound, unlink_failed, unreadable,
                   destBefore, generated_dir, opened, clock, run, firstDoc>>

\* os.replace(tmp_path, config.output)
Replace ==
    /\ pc = "replace"
    /\ \E ok \in BOOLEAN :
         IF ok
         THEN /\ dest' = (IF WritesInPlace THEN dest ELSE tmp)
              /\ tmp' = Absent
              /\ pc' = "done"
         ELSE /\ pc' = "except"
              /\ UNCHANGED <<tmp, dest>>
    /\ UNCHANGED <<cfgVars, minVars,
                   config, listing_asc, rootIdx, walkStack, cache,
                   seen_paths, files, file_paths, idx, is_first_file,
                   skipped, tmp_bound, unlink_failed, unreadable,
                   destBefore, generated_dir, opened, clock, run, firstDoc>>

\* (variant: the except clause re-raises without cleaning up)
UnlinkNeverAttempted == FALSE

\* whether tmp_path.unlink() is attempted by the except clause
UnlinkAttempted == tmp_bound /\ tmp.exists

\* except Exception: unlink the temporary file when tmp_path is bound and
\* exists (an OSError of the unlink is swallowed), then re-raise
Cleanup ==
    /\ pc = "except"
    /\ IF UnlinkAttempted
       THEN \E unlinked \in BOOLEAN :
              /\ tmp' = IF unlinked THEN Absent ELSE tmp
              /\ unlink_failed' = ~unlinked
       ELSE UNCHANGED <<tmp, unlink_failed>>
    /\ pc' = "raised"
    /\ UNCHANGED <<cfgVars, minVars,
                   config, listing_asc, rootIdx, walkStack, cache,
                   seen_paths, files, file_paths, idx, is_first_file,
                   skipped, tmp_bound, unreadable, dest, destBefore,
                   generated_dir, opened, clock, run, firstDoc>>

\* KeyboardInterrupt while the temporary file is open or awaits the rename:
\* it is no Exception, so the except clause of write() does not run and
\* main() exits with status 130
Interrupt ==
    /\ pc \in {"header", "loop", "replace"}
    /\ pc' = "interrupted"
    /\ UNCHANGED <<cfgVars, minVars,
                   config, listing_asc, rootIdx, walkStack, cache,
                   seen_paths, files, file_paths, idx, is_first_file,
                   skipped, tmp, tmp_bound, unlink_failed, unreadable, dest,
                   destBefore, generated_dir, opened, clock, run, firstDoc>>

----------------------------------------------------------------------------
(* The environment: time passes, and the tool is run again *)

\* time.strftime reads the wall clock when the header is written
Tick ==
    /\ pc = "header"
    /\ clock < MaxClock
    /\ clock' = clock + 1
    /\ UNCHANGED <<cfgVars, minVars,
                   config, listing_asc, pc, rootIdx, walkStack, cache,
                   seen_paths, files, file_paths, idx, is_first_file,
                   skipped, tmp, tmp_bound, unlink_failed, unreadable, dest,
                   destBefore, generated_dir, opened, run, firstDoc>>

\* a second run with the same configuration on the same tree: a fresh
\* SmartFilter, FileCollector and StreamingWriter
Rerun ==
    /\ pc = "done"
    /\ run < MaxRuns
    /\ run' = run + 1
    /\ firstDoc' = dest
    /\ destBefore' = dest
    /\ pc' = "collect"
    /\ rootIdx' = 1
    /\ walkStack' = <<>>
    /\ cache' = EmptyCache
    /\ seen_paths' = {}
    /\ files' = <<>>
    /\ file_paths' = <<>>
    /\ idx' = 1
    /\ is_first_file' = TRUE
    /\ skipped' = {}
    /\ tmp_bound' = FALSE
    /\ opened' = {}
    /\ UNCHANGED <<cfgVars, minVars,
                   config, listing_asc, tmp, unlink_failed, unreadable,
                   dest, generated_dir, clock>>

Next ==
    \/ SkipMissingRoot
    \/ CollectFileRoot
    \/ BeginWalk
    \/ WalkDir
    \/ EndWalk
    \/ WriteBegin
    \/ OpenTemp
    \/ WriteHeader
    \/ ProcessNext
    \/ WriteFooter
    \/ Replace
    \/ Cleanup
    \/ Interrupt
    \/ Tick
    \/ Rerun

Spec == Init /\ [][Next]_vars

----------------------------------------------------------------------------
(* Configuration resolution: Generator(cli_config), repeated in a process *)

\* the entries of the project root that detection can see
RootChoices ==
    { {},
      {"go.mod"},
      {"app.sln", "go.mod"},
      {"setup.py", "go.mod"},
      {"setup.py", "app.sln", "go.mod"} }

\* what main() or a caller hands over besides preset and patterns
CliSettings ==
    { ConfigDefaults,
      [ConfigDefaults EXCEPT
          !.output = AbsPath(ProjectRoot \o <<"out", "ctx.txt">>)],
      [ConfigDefaults EXCEPT !.output = RelPath(<<"ctx.txt">>)],
      [ConfigDefaults EXCEPT !.max_file_size_mb = 2],
      [ConfigDefaults EXCEPT !.output_format = "json"],
      [ConfigDefaults EXCEPT !.minify = TRUE],
      [ConfigDefaults EXCEPT !.verbose = TRUE],
      [ConfigDefaults EXCEPT
          !.paths = <<AbsPath(ProjectRoot \o <<"build">>)>>,
          !.dry_run = TRUE],
      [ConfigDefaults EXCEPT
          !.output = AbsPath(ProjectRoot \o <<"out", "ctx.txt">>),
          !.max_file_size_mb = 2,
          !.output_format = "json",
          !.minify = TRUE,
          !.verbose = TRUE] }

\* as main() builds it (preset None unless --preset is given), with the
\* settings or the preset and patterns set
CliChoices ==
    { [c EXCEPT !.preset = None] : c \in CliSettings }
    \cup { [ConfigDefaults EXCEPT !.preset = p, !.include = ie[1],
                                  !.exclude = ie[2]] :
             p \in {None, "auto", "python"},
             ie \in { << <<>>, <<>> >>,
                      << <<"*.py", "*.md">>, <<"tests/*">> >> } }

\* what .context/.ai-context.yml holds (the empty dict: no file, or no
\* mapping in it)
FileChoices ==
    { EmptyDict,
      [preset |-> "go"],
      [include |-> <<"*.md", "*.toml">>, exclude |-> <<"docs/*">>],
      [output |-> RelPath(<<"ctx.txt">>), format |-> "markdown",
       max_file_size_mb |-> 3, minify |-> TRUE, verbose |-> TRUE],
      [output |-> AbsPath(ProjectRoot \o <<"out", "ctx.txt">>),
       format |-> "text", max_file_size_mb |-> DEFAULT_MAX_FILE_SIZE_MB,
       minify |-> FALSE, verbose |-> FALSE],
      [preset |-> "python", include |-> <<"*.py">>,
       paths |-> <<RelPath(<<"build">>)>>, minify |-> TRUE] }

\* no run has started
RunIdle ==
    /\ RunInit
    /\ listing_asc
    /\ config = [paths |-> <<ProjectRoot>>, output |-> DefaultOutput,
                 include |-> <<>>, exclude |-> <<>>,
                 exclude_common |-> TRUE,
                 max_file_size_bytes |-> Infinity,
                 output_format |-> "text", dry_run |-> FALSE]
    /\ dest = Absent
    /\ unreadable = {}

InitConfig ==
    /\ RunIdle
    /\ MinIdle
    /\ PRESETS = BuiltinPresets
    /\ root_entries \in RootChoices
    /\ cli_config = ConfigDefaults
    /\ file_conf = EmptyDict
    /\ final_config = ConfigDefaults
    /\ detected = None
    /\ resolutions = 0

\* Generator.__init__: one _resolve_config, with whatever the config file
\* holds at that moment
Resolve ==
    /\ resolutions < MaxResolves
    /\ \E cli \in CliChoices, file \in FileChoices :
          /\ cli_config' = cli
          /\ file_conf' = file
          /\ detected' = IF named_preset(cli, file) = "auto"
                          THEN detect(root_entries) ELSE None
          /\ final_config' = resolve_config(PRESETS, root_entries, cli, file)
          /\ PRESETS' = presets_after(
                PRESETS, preset_name(root_entries, cli, file), cli, file)
    /\ resolutions' = resolutions + 1
    /\ UNCHANGED <<root_entries, runVars, minVars>>

NextConfig ==
    \/ Resolve

SpecConfig == InitConfig /\ [][NextConfig]_vars

----------------------------------------------------------------------------
(* One text file through FileProcessor.process_file and Minifier.minify *)

\* the decoded texts: up to MaxPieces pieces, one after the other
Pieces ==
    { <<"a">>, <<" ">>, <<"\n">>, <<"/">>, <<"*">>, <<"#">>, <<"(">>,
      <<"*", "/">>, <<"/", "*", "*", "/">> }

RECURSIVE TextsOf(_)
TextsOf(n) ==
    IF n = 0 THEN { <<>> }
    ELSE LET shorter == TextsOf(n - 1)
         IN  shorter \cup { t \o piece : t \in shorter, piece \in Pieces }

\* one suffix for each strategy of Minifier.minify
Suffixes == {".py", ".js", ".css", ".txt"}

InitMinify ==
    /\ RunIdle
    /\ CfgIdle
    /\ content \in TextsOf(MaxPieces)
    /\ file_suffix \in Suffixes
    /\ processed = Unprocessed
    /\ minified = <<>>

\* process_file on a readable text file, with config.minify set or not
ProcessFile ==
    /\ processed.state = "none"
    /\ \E minify_on \in BOOLEAN :
          /\ processed' = process_text(content, file_suffix, minify_on)
          /\ minified' = IF minify_on THEN <<minify(content, file_suffix)>>
                          ELSE <<>>
    /\ UNCHANGED <<content, file_suffix, runVars, cfgVars>>

\* the output of the latest pass is minified again, as a file of the same
\* suffix
MinifyAgain ==
    /\ minified # <<>>
    /\ Len(minified) < MaxPasses
    /\ minified' =
          Append(minified, minify(minified[Len(minified)], file_suffix))
    /\ UNCHANGED <<content, file_suffix, processed, runVars, cfgVars>>

NextMinify ==
    \/ ProcessFile
    \/ MinifyAgain

SpecMinify == InitMinify /\ [][NextMinify]_vars

----------------------------------------------------------------------------
(* Properties *)

\* the entries the per-file loop writes for a list of paths
RECURSIVE RenderAll(_, _)
RenderAll(ps, first) ==
    IF ps = <<>> THEN <<>>
    ELSE write_file(Head(ps), first) \o RenderAll(Tail(ps), FALSE)

\* the complete document of the current run with header time t: header,
\* every candidate that was not skipped, footer
CompleteDoc(t) ==
    [exists |-> TRUE,
     data |-> write_header(Len(file_paths), t)
              \o RenderAll(SelectSeq(file_paths, LAMBDA p : p \notin skipped),
                           TRUE)
              \o write_footer]

FileChunks(doc) == {i \in 1..Len(doc.data) : doc.data[i].k = "file"}

\* C1: at every moment of a run the destination holds either what it held
\* before the run (or is absent as before) or the complete new document;
\* it never holds a prefix of the new document.
C1_AtomicPublish ==
    \/ dest = destBefore
    \/ pc = "done" /\ \E t \in 0..MaxClock : dest = CompleteDoc(t)

\* a failure after at least one file was rendered left an existing
\* destination as it was
C1_Witness ==
    /\ pc = "raised"
    /\ tmp_bound
    /\ \E i \in 1..(idx - 1) : file_paths[i] \notin skipped
    /\ dest.exists
    /\ dest = destBefore

\* C2 as stated: when a failure after the creation of the temporary file has
\* propagated out of write, the temporary file is gone and the destination
\* is unchanged.
C2_TempGoneAfterFailure ==
    (pc = "raised" /\ tmp_bound) => (~tmp.exists /\ dest = destBefore)

\* C2 amended: when such a failure has propagated, the destination is
\* unchanged and the temporary file is gone unless its unlink itself
\* failed (that OSError is swallowed and the file stays).
C2_TempGoneUnlessUnlinkFails ==
    (pc = "raised" /\ tmp_bound) =>
        (dest = destBefore /\ (tmp.exists <=> unlink_failed))

\* a failure after a rendered file, cleaned up
C2_Witness ==
    /\ pc = "raised"
    /\ tmp_bound
    /\ idx > 1
    /\ ~tmp.exists
    /\ ~unlink_failed

\* C3: no yielded file lies beneath a directory the filter has rejected,
\* whatever the configured roots.
C3_PruningBeforeInclusion ==
    \A d \in StaticDirs :
        (d \in DOMAIN cache /\ ~cache[d]) =>
            \A i \in 1..Len(files) : ~IsUnder(files[i], d)

\* C4: no yielded file has a root-relative path that matches a configured
\* exclude pattern.
C4_ExcludeOnRelativePath ==
    \A i \in 1..Len(files) :
        ~matches(rel_to_project_root(files[i]), config.exclude)

\* the directory names among the built-in excludes
CommonDirNames ==
    {DEFAULT_EXCLUDE_PATTERNS[i] : i \in 2..5}

\* C5: with common excludes on, a walk of the project root collects no
\* file that is, or lies beneath, a dot-named entry, and none beneath a
\* directory named dist, build, node_modules or __pycache__.
C5_CommonExcludes ==
    (config.exclude_common /\ config.paths = <<ProjectRoot>>) =>
        \A i \in 1..Len(files) :
            LET parts == RelParts(files[i]) IN
            \A j \in 1..Len(parts) :
                /\ ~StartsWith(Spell(parts[j]), <<".">>)
                /\ j < Len(parts) => Spell(parts[j]) \notin CommonDirNames

\* C6: in a published JSON document the file_count of the metadata equals
\* the number of entries of the files array.
C6_FileCountIsEntryCount ==
    (pc = "done" /\ ~config.dry_run /\ config.output_format = "json") =>
        dest.data[1].count = Cardinality(FileChunks(dest))

\* C7: the document a second run publishes is identical to the document
\* the first run published (same tree, same configuration).
C7_Deterministic ==
    (run > 1 /\ pc = "done" /\ ~config.dry_run) => dest = firstDoc

\* C8: the output path is never processed and never rendered.
C8_OutputNeverIncluded ==
    /\ resolve(config.output) \notin opened
    /\ resolve(config.output) \notin skipped
    /\ \A doc \in {tmp, dest} : \A i \in FileChunks(doc) :
          doc.data[i].path # RelParts(resolve(config.output))

\* the previous output was collected from a scanned root, and the run
\* published a new document
C8_Witness ==
    /\ \E i \in 1..Len(files) : files[i] = resolve(config.output)
    /\ pc = "done"
    /\ ~config.dry_run
    /\ FileChunks(dest) # {}

\* C9: a dry run creates no directory and no temporary file, opens no
\* candidate and leaves the destination as it was.
C9_DryRunWritesNothing ==
    config.dry_run =>
        /\ generated_dir => (destBefore.exists /\ config.output = DefaultOutput)
        /\ ~tmp.exists
        /\ opened = {}
        /\ dest = destBefore

\* a dry run that listed candidates and returned, the output directory
\* still missing
C9_Witness ==
    /\ config.dry_run
    /\ pc = "done"
    /\ Len(file_paths) > 0
    /\ ~generated_dir

C11_NoDoubleYield ==
    /\ \A i \in 1..Len(files) : resolve(files[i]) = files[i]
    /\ \A i, j \in 1..Len(files) : i # j => files[i] # files[j]

\* all of a file root, a missing root and a directory root listed twice
\* were collected, the file root's path having been met three times
C11_Witness ==
    /\ Len(config.paths) = 4
    /\ rootIdx > Len(config.paths)
    /\ \E i \in 1..Len(files) : files[i] = ProjectRoot \o <<"a.py">>

\* the entries of a document that render the given path
RenderedIn(doc, path) ==
    \E i \in FileChunks(doc) : doc.data[i].path = RelParts(path)

\* C16: a per-file problem never halts the run: a candidate that
\* process_file reports as skipped moves the loop on to the next candidate
\* with the output untouched, and a published document holds every
\* candidate that was not skipped, those after a skipped one included.
C16_SkipNeverHalts ==
    /\ [](pc = "done" /\ ~config.dry_run =>
            \A i \in 1..Len(file_paths) :
                file_paths[i] \in skipped \/ RenderedIn(dest, file_paths[i]))
    /\ [][(/\ pc = "loop"
            /\ idx <= Len(file_paths)
            /\ process_file(file_paths[idx]).skipped
            /\ pc' # "interrupted")
           => (/\ pc' = "loop"
               /\ idx' = idx + 1
               /\ skipped' = skipped \cup {file_paths[idx]}
               /\ tmp' = tmp
               /\ dest' = dest)]_vars

\* a published run in which a skipped candidate precedes a rendered one,
\* an unreadable file among the skipped
C16_Witness ==
    /\ pc = "done"
    /\ ~config.dry_run
    /\ unreadable \cap skipped # {}
    /\ \E i, j \in 1..Len(file_paths) :
          /\ i < j
          /\ file_paths[i] \in skipped
          /\ RenderedIn(dest, file_paths[j])

\* the paths of the tree that should_process can be asked about
TreePaths == StaticDirs \cup StaticFiles \cup Symlinks

\* C19: during collection every cached decision equals the decision the
\* rules give, on a fresh matcher, for each path that resolves to the
\* cached key; and no cached entry is ever removed or changed in a run.
C19_CacheIsMemoization ==
    /\ [](pc \in {"collect", "walk"} =>
            \A p \in TreePaths :
                resolve(p) \in DOMAIN cache =>
                    cache[resolve(p)] = should_process(EmptyCache, p).ret)
    /\ [][run' = run =>
            \A k \in DOMAIN cache :
                k \in DOMAIN cache' /\ cache'[k] = cache[k]]_vars

\* C20: when the temporary file is about to be opened, the directory that
\* will hold the destination exists, for every output path.
C20_OutputDirExists ==
    pc = "open" => is_dir(Parent(config.output))

\* the preset the latest resolution used
used_preset == preset_name(root_entries, cli_config, file_conf)

\* the three layers of one list, as the built-in table has the preset
Layers(key) ==
    get(get_preset_config(BuiltinPresets, used_preset), key, <<>>)
        \o get(file_conf, key, <<>>) \o cli_config[key]

FirstAt(seq, x) == CHOOSE i \in 1..Len(seq) :
    seq[i] = x /\ \A j \in 1..(i - 1) : seq[j] # x

\* out holds every element of seq exactly once, in order of first occurrence
IsDedupOf(out, seq) ==
    /\ \A i, j \in 1..Len(out) : i # j => out[i] # out[j]
    /\ {out[i] : i \in 1..Len(out)} = {seq[i] : i \in 1..Len(seq)}
    /\ \A i, j \in 1..Len(out) :
          i < j => FirstAt(seq, out[i]) < FirstAt(seq, out[j])

\* C12: the built-in presets are static: after any sequence of
\* configuration resolutions the preset table is what it was when the
\* process started (so no resolution can depend on an earlier one).
C12_PresetsUnchanged == PRESETS = BuiltinPresets

\* C13: the effective include list, and the effective exclude list, of a
\* resolution is its preset's patterns, then the config file's, then the
\* CLI's, each pattern once at its first occurrence, nothing dropped and
\* nothing added.
C13_LayeredPatterns ==
    resolutions > 0 =>
        /\ IsDedupOf(final_config.include, Layers("include"))
        /\ IsDedupOf(final_config.exclude, Layers("exclude"))

\* the value the precedence rule gives a scalar field
Precedence(cli_value, default, key) ==
    IF cli_value # default THEN cli_value
    ELSE IF key \in DOMAIN file_conf THEN file_conf[key]
    ELSE default

\* C14: each scalar field of a resolved configuration is the CLI value when
\* that differs from the hard-coded default, else the config file's value
\* when the file has the key, else the default (an output path being
\* normalized whichever layer it comes from); a CLI value equal to the
\* default never overrides the file's.
C14_ScalarPrecedence ==
    resolutions > 0 =>
        /\ final_config.output =
              normalized(Precedence(cli_config.output, default_output,
                                    "output"))
        /\ final_config.output_format =
              Precedence(cli_config.output_format, "text", "format")
        /\ final_config.max_file_size_mb =
              Precedence(cli_config.max_file_size_mb,
                         DEFAULT_MAX_FILE_SIZE_MB, "max_file_size_mb")
        /\ final_config.minify = Precedence(cli_config.minify, FALSE, "minify")
        /\ final_config.verbose =
              Precedence(cli_config.verbose, FALSE, "verbose")

\* the CLI left every scalar at its default and the file set each of them
\* to another value, which the resolution took
C14_Witness ==
    /\ resolutions > 0
    /\ cli_config.output = default_output
    /\ cli_config.output_format = "text"
    /\ cli_config.max_file_size_mb = DEFAULT_MAX_FILE_SIZE_MB
    /\ ~cli_config.minify
    /\ ~cli_config.verbose
    /\ final_config.output = in_generated_dir("ctx.txt")
    /\ final_config.output_format = "markdown"
    /\ final_config.max_file_size_mb = 3
    /\ final_config.minify
    /\ final_config.verbose

\* C15: detect returns the first ecosystem of the table, in table order,
\* one of whose indicators is present under the root, and "generic" when
\* none is; the generic preset contributes no include or exclude pattern.
C15_FirstListedWins ==
    detected # None =>
        /\ \A i \in 1..Len(INDICATORS) :
              (/\ has_indicator(i, root_entries)
               /\ \A j \in 1..(i - 1) : ~has_indicator(j, root_entries))
              => detected = INDICATORS[i].name
        /\ (\A i \in 1..Len(INDICATORS) : ~has_indicator(i, root_entries))
              => /\ detected = "generic"
                 /\ final_config.include =
                       fromkeys(get(file_conf, "include", <<>>)
                                    \o cli_config.include)
                 /\ final_config.exclude =
                       fromkeys(get(file_conf, "exclude", <<>>)
                                    \o cli_config.exclude)

\* indicators of three ecosystems are present (one of them through a glob)
\* and detection returned the earliest listed
C15_Witness ==
    /\ root_entries = {"setup.py", "app.sln", "go.mod"}
    /\ detected = "python"

\* C17: whenever the minification strategy fails on a file's text (the
\* tokenizer of the Python strategy raises), the file is included and its
\* content is the original, unminified text.
C17_FailureKeepsOriginal ==
    (/\ processed.state # "none"
     /\ processed.minify
     /\ file_suffix = ".py"
     /\ tokenize_raises(content, FALSE))
    => (processed.state = "included" /\ processed.content = content)

\* C18: each of the four strategies is idempotent: minifying the output of
\* a pass gives that output again, whatever the text and the suffix.
C18_Idempotent ==
    Len(minified) >= 2 => minified[2] = minified[1]

\* C21: when a run is interrupted between the creation of the temporary
\* file and the rename, the destination is as it was before the run and no
\* temporary file remains.
C21_InterruptRemovesTemp ==
    pc = "interrupted" => (dest = destBefore /\ ~tmp.exists)

\* one of the reject rules 1-4 of should_process matches the path
RejectedByRules1to4(path) ==
    \/ InContextDir(path)
    \/ HasBinaryExtension(path)
    \/ CommonExcluded(path)
    \/ CustomExcluded(path)

\* C22: of the paths that no reject rule 1-4 matches, should_process
\* accepts every directory, and accepts a file exactly when no include
\* pattern is configured or the file's name matches one.
C22_IncludeOnFileNames ==
    pc \in {"collect", "walk"} =>
        \A p \in TreePaths :
            ~RejectedByRules1to4(p) =>
                /\ is_dir(p) => should_process(cache, p).ret
                /\ is_file(p) =>
                      (should_process(cache, p).ret
                         <=> \/ config.include = <<>>
                             \/ matches(Spell(Name(p)), config.include))

=============================================================================
